---- MODULE Spec2Model ----
(***************************************************************************)
(* Model of the AI governance sidecar (dagbolade/AgentGov):                *)
(*   - policy.Engine       (internal/policy/engine.go, WASM variant)       *)
(*   - policy.WASMLoader   (internal/policy/loader.go)                     *)
(*   - policy.FileWatcher  (internal/policy/watcher.go)                    *)
(*   - approval.InMemoryQueue (internal/approval/queue.go)                 *)
(*   - proxy.Handler       (internal/proxy/handler.go, approval variant)   *)
(*   - audit.SQLiteStore   (internal/audit/store.go, schema.go)            *)
(* Twelve specifications share the variables:                                 *)
(*   SpecCompose: concurrent Evaluate calls on a fixed evaluator set       *)
(*   SpecEngine : concurrent Evaluate calls against reloads and Close      *)
(*   SpecLoad   : the loader's first load over every small directory       *)
(*   SpecWatch  : bursts of file events, the debounce timer and its reloads *)
(*   SpecBudget : Evaluate calls against a looping policy and the deadline *)
(*   SpecInstance: one evaluator instance serving call after call          *)
(*   SpecQueue  : Enqueue callers against Decide, timeout, cancel, Close   *)
(*   SpecLock   : the queue's mutex, Enqueue, Decide, timeout, GetPending  *)
(*   SpecStore  : the audit store under Log, GetAll, UPDATE and DELETE     *)
(*   SpecWriters: concurrent Log calls contending for the write lock       *)
(*   SpecAudit  : the request pipeline against a store that refuses writes *)
(*   Spec       : the request pipeline HandleToolCall end to end           *)
(***************************************************************************)
EXTENDS Integers, Sequences, FiniteSets, TLC

\* ------------------------------------------------------------------------
\* Bounds of the model
\* ------------------------------------------------------------------------
NumProcs == 2          \* concurrent request goroutines / Evaluate callers
MaxLoads == 1          \* loads that succeed after the initial one
MaxDirChanges == 1     \* changes made to the policy directory
MemoryCap == 4         \* buffers the linear memory of an instance can hold

Procs == 1..NumProcs

\* ------------------------------------------------------------------------
\* Data: requests, policy responses
\* ------------------------------------------------------------------------
Tools == {"calc", "db"}

\* policy.Response {Allow, Reason, HumanRequired}
Resp(a, h, why) == [allow |-> a, human |-> h, reason |-> why]

\* a denyResponse that builds an allowing response
denyResponse_Allowing(why) == Resp(TRUE, FALSE, why)

\* Engine.denyResponse
denyResponse(why) == Resp(FALSE, FALSE, why)

\* result of one WASMEvaluator.Evaluate call: (Response, error)
Ok(resp) == [err |-> FALSE, resp |-> resp]
Failed == [err |-> TRUE, resp |-> Resp(FALSE, FALSE, "")]

\* ------------------------------------------------------------------------
\* Policy artifacts.  A policy module is a deterministic function of the
\* policy input; the kinds below are the behaviours the repository's
\* policies and tests exhibit.  "invalid" is a file that does not compile.
\* ------------------------------------------------------------------------
Compiling == {"allow_all", "deny_sensitive", "require_approval", "review_block", "silent",
              "trap"}
Artifacts == Compiling \cup {"invalid"}
\* a module whose evaluate export loops without returning; it compiles and
\* instantiates like any other
Looping == {"spin"}
Loadable == Compiling \cup Looping

\* what the module's evaluate export computes for a tool call
Behaviour(art, tool) ==
    CASE art = "allow_all"        -> Ok(Resp(TRUE, FALSE, "ok"))
      [] art = "deny_sensitive"   -> IF tool = "db"
                                     THEN Ok(Resp(FALSE, FALSE, "contains password"))
                                     ELSE Ok(Resp(TRUE, FALSE, "ok"))
      [] art = "require_approval" -> IF tool = "db"
                                     THEN Ok(Resp(TRUE, TRUE, "sensitive op"))
                                     ELSE Ok(Resp(TRUE, FALSE, "ok"))
      [] art = "review_block"     -> Ok(Resp(FALSE, TRUE, "needs review"))
      [] art = "silent"           -> Ok(Resp(FALSE, FALSE, ""))
      [] OTHER                    -> Failed

\* every (Response, error) a call can produce; the outcomes of a call that
\* races with another call on the same wasmtime store (not goroutine-safe)
AllOutcomes == { Behaviour(a, t) : a \in Compiling, t \in Tools }

\* ------------------------------------------------------------------------
\* Policy directory and loader
\* ------------------------------------------------------------------------
\* directory entries: base name and extension as written on disk
Files == { [stem |-> "a", ext |-> ".wasm"], [stem |-> "B", ext |-> ".WASM"] }
Names == {"a", "b"}

\* strings.ToLower on the stems and extensions in use
ToLower(s) ==
    CASE s = "B" -> "b"
      [] s = "A" -> "a"
      [] s = ".WASM" -> ".wasm"
      [] OTHER -> s

\* WASMLoader.isWASMFile: case-insensitive suffix test
isWASMFile(f) == ToLower(f.ext) = ".wasm"

\* WASMLoader.extractPolicyName: extension stripped, lowercased
extractPolicyName(f) == ToLower(f.stem)

\* sprintf("policy error: %s", name)
PolicyErrorReason(name) ==
    CASE name = "a" -> "policy error: a"
      [] name = "b" -> "policy error: b"
      [] OTHER -> "policy error: ?"

NoEvaluators == [n \in {} |-> [gen |-> 0, art |-> "allow_all"]]

\* a directory may also hold a file whose name differs from another's in
\* case only
LoaderFiles == Files \cup { [stem |-> "A", ext |-> ".wasm"] }

\* os.ReadDir returns the entries sorted by filename: "A.wasm", "B.WASM",
\* "a.wasm"
ReadDirRank(f) ==
    CASE f = [stem |-> "A", ext |-> ".wasm"] -> 1
      [] f = [stem |-> "B", ext |-> ".WASM"] -> 2
      [] OTHER -> 3

\* the files of directory d that are candidates and compile
Loaded(d) == { g \in DOMAIN d : d[g] \in Loadable /\ isWASMFile(g) }

\* names of the files of directory d that are candidates and compile
LoadableNames(d) == { extractPolicyName(f) : f \in Loaded(d) }

\* the file whose evaluator evaluators[n] holds when the loop ends: the
\* last one of that name in directory order
FileOfName(d, n) ==
    CHOOSE f \in Loaded(d) :
        /\ extractPolicyName(f) = n
        /\ \A g \in Loaded(d) : extractPolicyName(g) = n => ReadDirRank(g) <= ReadDirRank(f)

\* WASMLoader.LoadFromDir: fresh evaluator instances (generation g) for the
\* candidates that compile; an error when there is none
LoadFromDir(d, g) ==
    IF LoadableNames(d) = {}
    THEN [err |-> TRUE, evals |-> NoEvaluators]
    ELSE [err |-> FALSE,
          evals |-> [n \in LoadableNames(d) |-> [gen |-> g, art |-> d[FileOfName(d, n)]]]]

\* the errors of LoadFromDir: os.ReadDir failed, or no candidate compiled
ReadDirError == "read directory"
NoPoliciesError == "no WASM policies found"

\* the error value LoadFromDir returns with result res on a directory it read
LoadError(res) == IF res.err THEN NoPoliciesError ELSE "nil"

\* ------------------------------------------------------------------------
\* State
\* ------------------------------------------------------------------------
VARIABLES
    \* request goroutines
    pc,             \* position of each request goroutine / Evaluate caller
    input,          \* tool name of the envelope each goroutine carries
    \* policy directory and FileWatcher
    dir,            \* file -> artifact on disk, or "absent"
    timerArmed,     \* the debounce timer is running
    waiters,        \* waitAndHandle goroutines blocked on <-timer.C
    handlersReady,  \* waitAndHandle goroutines about to call fw.handler
    watcherClosed,  \* FileWatcher.Close was called
    nDirChanges,    \* directory changes made so far
    \* Engine
    evaluators,     \* Engine.evaluators: name -> [gen, art]
    gen,            \* generation given to the next loaded set
    closed,         \* instances still referenced on which WASMEvaluator.Close was called
    readers,        \* goroutines holding e.mu.RLock
    wpc,            \* position of the goroutine holding e.mu.Lock
    seen,           \* per Evaluate call: names iterated so far -> outcome returned
    callInst,       \* per Evaluate call: instance whose Evaluate is running
    raced,          \* per Evaluate call: running call overlaps another on its instance
    snap,           \* per Evaluate call: Engine.evaluators when RLock was taken
    verdict,        \* per Evaluate call: the Response returned
    lastGood,       \* set installed by the last load that succeeded
    preReload,      \* Engine.evaluators when the running reload took the lock
    loadErr,        \* error LoadFromDir returned to NewEngine, "none" before the call
    heapUsed,       \* per policy name: buffers its instance's allocate export handed out
    fuelLeft,       \* per policy name: fuel in the store of its instance
    results,        \* per policy name and tool: the results its instance has returned
    expired,        \* per Evaluate call: the deadline of its evalCtx has passed
    ran             \* per Evaluate call: units of fuel's worth the running call has executed

\* approval queue, its deciders, and the handler's outputs
VARIABLES
    pending,        \* InMemoryQueue.pending: ids of the entries in the map
    status,         \* Request.Status of the entry of each id
    resultCh,       \* per id: the buffered channel (capacity 1) and whether it is closed
    notifyCh,       \* InMemoryQueue.notifyCh: buffered signals, closed or not
    enqRet,         \* per caller: what Enqueue returned (Decision, error)
    ctxErr,         \* per caller: the request context was cancelled
    dpc,            \* position of each decider in Decide
    did,            \* id each decider passed to Decide
    ddec,           \* decision each decider passed to Decide
    dres,           \* what Decide returned to each decider
    audited,        \* per request: logAudit's calls of Store.Log with the request's
                    \* envelope: decision, reason, and the error Log returned
    response,       \* per request: HTTP status and message written to the client
    forwarded       \* per request: Forwarder.Forward was called for it

\* audit store
VARIABLES
    auditLog,       \* rows of the audit_log table, in insertion order
    lastId,         \* largest id AUTOINCREMENT has given out
    now,            \* CURRENT_TIMESTAMP, in seconds
    storeFault,     \* the database refuses INSERT (locked past the retries, closed)
    gotAll,         \* entries the last GetAll returned
    lastExec,       \* last statement run on the store: operation, row id, error
    dbWriter,       \* the Log caller whose INSERT holds the database's write lock, 0 for none
    attempts,       \* per Log caller: attempts of insertEntry that ended SQLITE_BUSY
    logRet          \* per Log caller: the error Log returned

\* the queue's mutex and the websocket handler's watchApprovals goroutine
VARIABLES
    mu,             \* InMemoryQueue.mu: held for writing, number of read holders
    spc,            \* position of the goroutine that calls GetPending
    listed          \* ids of the entries watchApprovals last broadcast

procVars  == <<pc, input>>
queueVars == <<pending, status, resultCh, notifyCh, enqRet, ctxErr>>
deciderVars == <<dpc, did, ddec, dres>>
handlerVars == <<audited, response, forwarded>>
writerVars == <<dbWriter, attempts, logRet>>
storeVars == <<auditLog, lastId, now, storeFault, gotAll, lastExec, writerVars>>
lockVars == <<mu, spc, listed>>
frontVars == <<queueVars, deciderVars, handlerVars, storeVars, lockVars>>
dirVars   == <<dir, nDirChanges>>
watchVars == <<timerArmed, waiters, handlersReady, watcherClosed>>
instVars  == <<heapUsed, fuelLeft, results>>
setVars   == <<evaluators, gen, closed, wpc, lastGood, preReload, loadErr, instVars>>
evalVars  == <<readers, seen, callInst, raced, snap, verdict, expired, ran>>
engineVars == <<dirVars, watchVars, setVars, evalVars>>

vars == <<procVars, engineVars, frontVars>>

NoSeen == [n \in {} |-> Failed]

\* ------------------------------------------------------------------------
\* Engine.Evaluate
\* ------------------------------------------------------------------------
Instance(n, e) == [name |-> n, gen |-> e.gen, art |-> e.art]

\* the evaluator instances held by a set
Instances(evs) == { Instance(n, evs[n]) : n \in DOMAIN evs }

\* ComposeStep with the error branch falling through to the next policy
ComposeStep_FailOpen(name, out) ==
    IF out.err THEN [done |-> FALSE, resp |-> out.resp]
    ELSE IF ~out.resp.allow THEN [done |-> TRUE, resp |-> out.resp]
    ELSE IF out.resp.human THEN [done |-> TRUE, resp |-> out.resp]
    ELSE [done |-> FALSE, resp |-> out.resp]

\* one iteration of the loop body of Engine.Evaluate on the evaluator's
\* (Response, error): either the call returns resp, or the loop goes on
ComposeStep(name, out) ==
    IF out.err THEN [done |-> TRUE, resp |-> denyResponse(PolicyErrorReason(name))]
    ELSE IF ~out.resp.allow THEN [done |-> TRUE, resp |-> out.resp]
    ELSE IF out.resp.human THEN [done |-> TRUE, resp |-> out.resp]
    ELSE [done |-> FALSE, resp |-> out.resp]

AllPassed == Resp(TRUE, FALSE, "all policies passed")

\* sync.RWMutex: RLock is granted while no goroutine holds Lock
CanRLock == wpc = "none"
\* sync.RWMutex: Lock is granted while nobody holds RLock or Lock
CanLock == wpc = "none" /\ readers = {}

\* Engine.Evaluate takes e.mu.RLock() before it reads e.evaluators
EvaluateLocks == CanRLock

\* return from Engine.Evaluate with resp; rd: the readers once the deferred
\* RUnlock has run
EvalFinish(r, resp, rd) ==
    /\ verdict' = [verdict EXCEPT ![r] = <<resp>>]
    /\ readers' = rd
    /\ callInst' = [callInst EXCEPT ![r] = <<>>]
    /\ raced' = [raced EXCEPT ![r] = FALSE]
    /\ ran' = [ran EXCEPT ![r] = 0]
    /\ pc' = [pc EXCEPT ![r] = "evaluated"]

\* eval.Evaluate(ctx, req) is entered on the instance e.evaluators[n]; the
\* call overlaps every call still running on that instance
EvalCall(r, n, rd) ==
    LET inst == Instance(n, evaluators[n])
        others == { q \in Procs \ {r} : callInst[q] = <<inst>> }
    IN /\ callInst' = [callInst EXCEPT ![r] = <<inst>>]
       /\ raced' = [q \in Procs |->
                      IF q = r THEN others # {}
                      ELSE IF q \in others THEN TRUE ELSE raced[q]]
       /\ readers' = rd
       /\ ran' = [ran EXCEPT ![r] = 0]
       /\ pc' = [pc EXCEPT ![r] = "eval_call"]
       /\ UNCHANGED verdict

\* RLock, the empty-set test, and the first key the range loop yields (Go
\* iterates a map in unspecified order)
EvalEnter(r) ==
    /\ EvaluateLocks
    /\ snap' = [snap EXCEPT ![r] = evaluators]
    /\ seen' = [seen EXCEPT ![r] = NoSeen]
    /\ IF DOMAIN evaluators = {}
       THEN EvalFinish(r, denyResponse("no policies loaded"), readers)
       ELSE \E n \in DOMAIN evaluators : EvalCall(r, n, readers \cup {r})
    /\ UNCHANGED <<dirVars, watchVars, setVars, frontVars, expired>>

\* what an undisturbed call of instance inst returns; a looping module
\* does not return
CallReturns(inst, tool) ==
    IF inst.art \in Looping THEN {} ELSE {Behaviour(inst.art, tool)}

\* eval.Evaluate returned out: the rest of the loop body, then the next key
\* or the end of the loop
EvalReturns(r, out) ==
    LET inst == callInst[r][1]
        step == ComposeStep(inst.name, out)
        s2 == [n \in DOMAIN seen[r] \cup {inst.name} |->
                 IF n = inst.name THEN out ELSE seen[r][n]]
    IN /\ seen' = [seen EXCEPT ![r] = s2]
       /\ IF step.done
          THEN EvalFinish(r, step.resp, readers \ {r})
          ELSE IF DOMAIN evaluators \subseteq DOMAIN s2
          THEN EvalFinish(r, AllPassed, readers \ {r})
          ELSE \E n \in DOMAIN evaluators \ DOMAIN s2 : EvalCall(r, n, readers)

\* eval.Evaluate returns
EvalCallReturn(r) ==
    /\ pc[r] = "eval_call"
    /\ \E out \in (IF raced[r] THEN AllOutcomes
                   ELSE CallReturns(callInst[r][1], input[r])) : EvalReturns(r, out)
    /\ UNCHANGED <<input, snap, dirVars, watchVars, setVars, frontVars, expired>>

\* NewWASMLoader builds its wasmtime.Config with SetWasmMultiMemory and
\* SetWasmThreads only: fuel consumption is not enabled, so the store does
\* not meter execution and the error of store.AddFuel is discarded
ConsumeFuel == FALSE

\* the units store.AddFuel asks for (10000000 in the source, scaled down)
Fuel == 2

\* the evaluate export of a looping module executes one more unit; a store
\* that meters traps the call once the fuel is spent
EvalRun(r) ==
    /\ pc[r] = "eval_call"
    /\ callInst[r][1].art \in Looping
    /\ IF ConsumeFuel /\ ran[r] >= Fuel
       THEN EvalReturns(r, Failed)
       ELSE /\ ran[r] <= Fuel
            /\ ran' = [ran EXCEPT ![r] = @ + 1]
            /\ UNCHANGED <<pc, seen, verdict, readers, callInst, raced>>
    /\ UNCHANGED <<input, snap, dirVars, watchVars, setVars, frontVars, expired>>

\* the deadline of evalCtx (context.WithTimeout(ctx, 5*time.Second) in
\* evaluatePolicy) passes while Engine.Evaluate runs; neither Engine.Evaluate
\* nor WASMEvaluator.Evaluate reads the context
EvalDeadline(r) ==
    /\ pc[r] = "eval_call"
    /\ ~expired[r]
    /\ expired' = [expired EXCEPT ![r] = TRUE]
    /\ UNCHANGED <<procVars, dirVars, watchVars, setVars, readers, seen, callInst, raced,
                   snap, verdict, ran, frontVars>>

\* Engine.Evaluate as a function of the order in which range yields the keys
\* and of the (Response, error) of each evaluator
RECURSIVE EvaluateLoop(_, _)
EvaluateLoop(order, outs) ==
    IF order = <<>> THEN AllPassed
    ELSE LET step == ComposeStep(Head(order), outs[Head(order)]) IN
         IF step.done THEN step.resp ELSE EvaluateLoop(Tail(order), outs)

\* the orders in which Go may iterate a map with key set S
Orders(S) == { o \in [1..Cardinality(S) -> S] : \A i, j \in DOMAIN o : o[i] = o[j] => i = j }

\* what a call of evaluator instance e can return: what its policy computes,
\* or, when requests overlap on the instance's store, any outcome
CallOutcomes(e, tool) ==
    IF NumProcs > 1 THEN AllOutcomes \cup {Behaviour(e.art, tool)} ELSE {Behaviour(e.art, tool)}

\* every Response Engine.Evaluate can return for a request on set evs
EvaluateResults(evs, tool) ==
    IF DOMAIN evs = {} THEN {denyResponse("no policies loaded")}
    ELSE { EvaluateLoop(o, outs) :
             o \in Orders(DOMAIN evs),
             outs \in { f \in [DOMAIN evs -> AllOutcomes \cup {Failed}] :
                          \A n \in DOMAIN evs : f[n] \in CallOutcomes(evs[n], tool) } }

\* ------------------------------------------------------------------------
\* Engine.Reload, handlePolicyChange, reloadLocked, Close
\* ------------------------------------------------------------------------
\* instances an Evaluate call in progress may still use
InFlight == UNION { Instances(snap[r]) : r \in { q \in Procs : pc[q] = "eval_call" } }

\* reloadLocked, first half (entered with e.mu held): close the existing
\* evaluators and empty the map
ReloadLockedClose(next) ==
    /\ closed' = (closed \cup Instances(evaluators)) \cap InFlight
    /\ evaluators' = NoEvaluators
    /\ preReload' = evaluators
    /\ wpc' = next

\* Engine.Reload taking the read lock instead of the write lock
ReloadLocks_Shared == wpc = "none"

\* Engine.Reload takes e.mu.Lock() before reloadLocked
ReloadLocks == CanLock

\* Engine.Reload: e.mu.Lock(), then reloadLocked up to the loader call
Reload ==
    /\ gen <= MaxLoads
    /\ ~watcherClosed
    /\ ReloadLocks
    /\ ReloadLockedClose("reload_load")
    /\ UNCHANGED <<procVars, dirVars, watchVars, evalVars, gen, lastGood, loadErr, instVars, frontVars>>

\* Engine.handlePolicyChange, called by a waitAndHandle goroutine:
\* e.mu.Lock(), then reloadLocked up to the loader call
HandlePolicyChange ==
    /\ handlersReady > 0
    /\ gen <= MaxLoads
    /\ CanLock
    /\ handlersReady' = handlersReady - 1
    /\ ReloadLockedClose("change_load")
    /\ UNCHANGED <<procVars, dirVars, evalVars, timerArmed, waiters, watcherClosed,
                   gen, lastGood, loadErr, instVars, frontVars>>

\* what reloadLocked leaves in e.evaluators when LoadFromDir fails: the map
\* it emptied before loading
AfterFailedLoad(before, emptied) == emptied

\* reloadLocked, second half: LoadFromDir, install on success; then the
\* deferred Unlock of the caller (Reload returns the error, handlePolicyChange
\* logs it)
ReloadLockedLoad ==
    /\ wpc \in {"reload_load", "change_load"}
    /\ LET policies == LoadFromDir(dir, gen) IN
       IF policies.err
       THEN /\ evaluators' = AfterFailedLoad(preReload, evaluators)
            /\ UNCHANGED <<gen, lastGood>>
       ELSE /\ evaluators' = policies.evals
            /\ gen' = gen + 1
            /\ lastGood' = policies.evals
    /\ wpc' = "none"
    /\ preReload' = NoEvaluators
    /\ UNCHANGED <<procVars, dirVars, watchVars, evalVars, closed, loadErr, instVars, frontVars>>

\* Engine.Close: Lock, close the watcher, close every evaluator, Unlock
EngineClose ==
    /\ ~watcherClosed
    /\ CanLock
    /\ watcherClosed' = TRUE
    /\ closed' = closed \cup Instances(evaluators)
    /\ UNCHANGED <<procVars, dirVars, evalVars, timerArmed, waiters, handlersReady,
                   evaluators, gen, wpc, lastGood, preReload, loadErr, instVars, frontVars>>

\* ------------------------------------------------------------------------
\* Policy directory and FileWatcher
\* ------------------------------------------------------------------------
Absent == "absent"
DirStates == [Files -> Artifacts \cup {Absent}]

\* FileWatcher.shouldHandle: Write or Create, and filepath.Ext(name) == ".wasm"
shouldHandle(ev) == ev.op \in {"write", "create"} /\ ev.file.ext = ".wasm"

\* FileWatcher.watch on one fsnotify event, while the watcher is open: an
\* event that passes shouldHandle resets the debounce timer and starts a
\* waitAndHandle goroutine
Watch(ev) ==
    IF ~watcherClosed /\ shouldHandle(ev)
    THEN /\ timerArmed' = TRUE               \* debounce.Reset(500ms)
         /\ waiters' = waiters + 1           \* go fw.waitAndHandle(...)
    ELSE UNCHANGED <<timerArmed, waiters>>

\* an operator writes (creates or overwrites) a policy file; fsnotify
\* delivers the event to FileWatcher.watch
WritePolicy(f, art) ==
    /\ nDirChanges < MaxDirChanges
    /\ dir[f] # art
    /\ dir' = [dir EXCEPT ![f] = art]
    /\ Watch([op |-> IF dir[f] = Absent THEN "create" ELSE "write", file |-> f])
    /\ nDirChanges' = nDirChanges + 1
    /\ UNCHANGED <<procVars, handlersReady, watcherClosed, setVars, evalVars, frontVars>>

\* an operator deletes a policy file; fsnotify delivers the event
DeletePolicy(f) ==
    /\ nDirChanges < MaxDirChanges
    /\ dir[f] # Absent
    /\ dir' = [dir EXCEPT ![f] = Absent]
    /\ Watch([op |-> "remove", file |-> f])
    /\ nDirChanges' = nDirChanges + 1
    /\ UNCHANGED <<procVars, handlersReady, watcherClosed, setVars, evalVars, frontVars>>

\* an operator renames a policy file away (out of the directory, or to a name
\* that is no candidate); fsnotify delivers Rename for the old name
RenamePolicy(f) ==
    /\ nDirChanges < MaxDirChanges
    /\ dir[f] # Absent
    /\ dir' = [dir EXCEPT ![f] = Absent]
    /\ Watch([op |-> "rename", file |-> f])
    /\ nDirChanges' = nDirChanges + 1
    /\ UNCHANGED <<procVars, handlersReady, watcherClosed, setVars, evalVars, frontVars>>

\* events a burst of writes to one policy file may deliver
MaxEvents == 3

\* a policy file is written again with the content it has (an editor or a
\* copy writes it in several pieces); fsnotify delivers one more Write
TouchPolicy(f) ==
    /\ nDirChanges < MaxEvents
    /\ dir[f] # Absent
    /\ Watch([op |-> "write", file |-> f])
    /\ nDirChanges' = nDirChanges + 1
    /\ UNCHANGED <<procVars, dir, handlersReady, watcherClosed, setVars, evalVars, frontVars>>

\* timer whose expiry releases every goroutine blocked in waitAndHandle
WaitAndHandle_All ==
    /\ timerArmed
    /\ waiters > 0
    /\ timerArmed' = FALSE
    /\ waiters' = 0
    /\ handlersReady' = handlersReady + waiters
    /\ UNCHANGED <<procVars, dirVars, watcherClosed, setVars, evalVars, frontVars>>

\* the debounce timer expires and FileWatcher.waitAndHandle receives from
\* timer.C in one of the blocked goroutines
WaitAndHandle ==
    /\ timerArmed
    /\ waiters > 0
    /\ timerArmed' = FALSE
    /\ waiters' = waiters - 1
    /\ handlersReady' = handlersReady + 1
    /\ UNCHANGED <<procVars, dirVars, watcherClosed, setVars, evalVars, frontVars>>

\* ------------------------------------------------------------------------
\* Approval queue (approval.InMemoryQueue).  An entry's id is the uuid drawn
\* by Enqueue; each caller enqueues once, so the caller's index names the id.
\* ------------------------------------------------------------------------
Deciders == {"alice", "bob"}

\* capacity of notifyCh
NotifyCap == 100
\* capacity of each resultCh
ResultCap == 1

\* approval.Decision {Approved, Reason, DecidedBy}
Decision(a, why, by) == [approved |-> a, reason |-> why, decidedBy |-> by]

\* the zero value a receive from a closed channel yields
ZeroDecision == Decision(FALSE, "", "")
TimeoutDecision == Decision(FALSE, "approval timeout", "")
CancelledDecision == Decision(FALSE, "request cancelled", "")

\* make(chan Decision, 1)
NewChan == [buf |-> <<>>, closed |-> FALSE]

\* (Decision, error) returned by Enqueue
Ret(dec, e) == [dec |-> dec, err |-> e]

\* InMemoryQueue.statusFromDecision
statusFromDecision(d) == IF d.approved THEN "approved" ELSE "denied"

\* Enqueue up to the end of addPending: the entry, Status pending, is stored
\* in q.pending under q.mu
addPending(r) ==
    /\ pending' = pending \cup {r}
    /\ status' = [status EXCEPT ![r] = "pending"]
    /\ resultCh' = [resultCh EXCEPT ![r] = NewChan]

\* InMemoryQueue.notifyWatchers, then Enqueue enters waitForDecision: a
\* non-blocking send on notifyCh, dropped when the buffer is full; a send on
\* a closed channel panics
EnqueueNotify(r) ==
    /\ pc[r] = "enq_notify"
    /\ IF notifyCh.closed
       THEN /\ pc' = [pc EXCEPT ![r] = "panicked"]
            /\ UNCHANGED notifyCh
       ELSE /\ notifyCh' = [notifyCh EXCEPT !.len = IF @ < NotifyCap THEN @ + 1 ELSE @]
            /\ pc' = [pc EXCEPT ![r] = "waiting"]
    /\ UNCHANGED <<input, engineVars, storeVars, lockVars, pending, status, resultCh, enqRet, ctxErr,
                   deciderVars, handlerVars>>

\* waitForDecision, case decision := <-resultCh: a buffered decision, or the
\* zero Decision once the channel is closed
WaitRecv(r) ==
    /\ pc[r] = "waiting"
    /\ resultCh[r].buf # <<>> \/ resultCh[r].closed
    /\ LET dec == IF resultCh[r].buf # <<>> THEN Head(resultCh[r].buf) ELSE ZeroDecision
       IN enqRet' = [enqRet EXCEPT ![r] = <<Ret(dec, "nil")>>]
    /\ resultCh' = [resultCh EXCEPT ![r].buf = IF @ # <<>> THEN Tail(@) ELSE @]
    /\ pc' = [pc EXCEPT ![r] = "enq_returned"]
    /\ UNCHANGED <<input, engineVars, storeVars, lockVars, pending, status, notifyCh, ctxErr,
                   deciderVars, handlerVars>>

\* handleTimeout leaving the entry in q.pending
TimeoutRemoves_Keeps(p, id) == p

\* handleTimeout: delete(q.pending, id)
TimeoutRemoves(p, id) == p \ {id}

\* InMemoryQueue.handleTimeout: under q.mu, if the entry is still pending,
\* Status timeout, entry deleted, resultCh closed
handleTimeout(id) ==
    IF id \in pending
    THEN /\ status' = [status EXCEPT ![id] = "timeout"]
         /\ pending' = TimeoutRemoves(pending, id)
         /\ resultCh' = [resultCh EXCEPT ![id].closed = TRUE]
    ELSE UNCHANGED <<status, pending, resultCh>>

\* waitForDecision, case <-timeoutCtx.Done() after the deadline passed
WaitTimeout(r) ==
    /\ pc[r] = "waiting"
    /\ handleTimeout(r)
    /\ enqRet' = [enqRet EXCEPT ![r] = <<Ret(TimeoutDecision, "nil")>>]
    /\ pc' = [pc EXCEPT ![r] = "enq_returned"]
    /\ UNCHANGED <<input, engineVars, storeVars, lockVars, notifyCh, ctxErr, deciderVars, handlerVars>>

\* the caller's context is cancelled while Enqueue is in waitForDecision:
\* cancel closes ctx.Done() and then timeoutCtx.Done() (a child of ctx), and
\* a goroutine that evaluates the select once both are closed takes either
\* case
WaitCancel(r) ==
    /\ pc[r] = "waiting"
    /\ ctxErr' = [ctxErr EXCEPT ![r] = TRUE]
    /\ handleTimeout(r)
    /\ \E branch \in {"timeoutCtx", "ctx"} :
          enqRet' = [enqRet EXCEPT ![r] =
                       IF branch = "ctx" THEN <<Ret(CancelledDecision, "context canceled")>>
                       ELSE <<Ret(TimeoutDecision, "nil")>>]
    /\ pc' = [pc EXCEPT ![r] = "enq_returned"]
    /\ UNCHANGED <<input, engineVars, storeVars, lockVars, notifyCh, deciderVars, handlerVars>>

\* Decide leaving the entry in q.pending
DecideRemoves_Keeps(p, id) == p

\* Decide: delete(q.pending, id)
DecideRemoves(p, id) == p \ {id}

\* the decision each dashboard user submits: alice approves, bob denies
Submits(d) == Decision(d = "alice", "human", d)

\* Decide, the section under q.mu: look the id up; not found, or delete it
Decide(d, id) ==
    /\ dpc[d] = "idle"
    /\ did' = [did EXCEPT ![d] = id]
    /\ ddec' = [ddec EXCEPT ![d] = Submits(d)]
    /\ IF id \in pending
       THEN /\ pending' = DecideRemoves(pending, id)
            /\ dpc' = [dpc EXCEPT ![d] = "send"]
            /\ UNCHANGED dres
       ELSE /\ dres' = [dres EXCEPT ![d] = "not found"]
            /\ dpc' = [dpc EXCEPT ![d] = "done"]
            /\ UNCHANGED pending
    /\ UNCHANGED <<procVars, engineVars, storeVars, lockVars, status, resultCh, notifyCh, enqRet, ctxErr,
                   handlerVars>>

\* Decide after q.mu.Unlock(): Status and decidedBy are set, the decision is
\* sent without blocking (dropped when the buffer is full; a send on a closed
\* channel panics), nil is returned
DecideSend(d) ==
    /\ dpc[d] = "send"
    /\ LET id == did[d] IN
       /\ status' = [status EXCEPT ![id] = statusFromDecision(ddec[d])]
       /\ IF resultCh[id].closed
          THEN /\ dpc' = [dpc EXCEPT ![d] = "panicked"]
               /\ UNCHANGED <<resultCh, dres>>
          ELSE /\ resultCh' = [resultCh EXCEPT ![id].buf =
                                 IF Len(@) < ResultCap THEN Append(@, ddec[d]) ELSE @]
               /\ dres' = [dres EXCEPT ![d] = "ok"]
               /\ dpc' = [dpc EXCEPT ![d] = "done"]
    /\ UNCHANGED <<procVars, engineVars, storeVars, lockVars, pending, notifyCh, enqRet, ctxErr, did, ddec,
                   handlerVars>>

\* InMemoryQueue.Close (main.go calls it once, deferred): under q.mu every
\* pending entry's resultCh is closed and the entry deleted, then notifyCh is
\* closed; no Status is written
QueueClose ==
    /\ ~notifyCh.closed
    /\ resultCh' = [id \in Procs |->
                      IF id \in pending THEN [resultCh[id] EXCEPT !.closed = TRUE]
                      ELSE resultCh[id]]
    /\ pending' = {}
    /\ notifyCh' = [notifyCh EXCEPT !.closed = TRUE]
    /\ UNCHANGED <<procVars, engineVars, storeVars, lockVars, status, enqRet, ctxErr, deciderVars, handlerVars>>

\* a goroutine calls Enqueue on the queue
CallEnqueue(r) ==
    /\ pc[r] = "idle"
    /\ addPending(r)
    /\ pc' = [pc EXCEPT ![r] = "enq_notify"]
    /\ UNCHANGED <<input, engineVars, storeVars, lockVars, notifyCh, enqRet, ctxErr, deciderVars, handlerVars>>

\* ------------------------------------------------------------------------
\* The approval queue with q.mu explicit: every critical section is a step
\* that takes the lock and a step that runs the section and releases it
\* ------------------------------------------------------------------------
\* the approver whose Decide calls contend for q.mu
LockDeciders == {"alice"}

\* q.mu.Lock() can return
CanLockQ == ~mu.w /\ mu.readers = 0

\* q.mu.RLock() can return
CanRLockQ == ~mu.w

Lock(m) == [m EXCEPT !.w = TRUE]

\* a critical section that returns without q.mu.Unlock()
Unlock_Missing(m) == m

Unlock(m) == [m EXCEPT !.w = FALSE]

\* Enqueue is called: the entry is built, addPending blocks in q.mu.Lock()
EnqueueCall(r) ==
    /\ pc[r] = "idle"
    /\ pc' = [pc EXCEPT ![r] = "add_lock"]
    /\ UNCHANGED <<input, engineVars, storeVars, queueVars, deciderVars, handlerVars,
                   lockVars>>

\* addPending gets the lock
AddLock(r) ==
    /\ pc[r] = "add_lock"
    /\ CanLockQ
    /\ mu' = Lock(mu)
    /\ pc' = [pc EXCEPT ![r] = "adding"]
    /\ UNCHANGED <<input, engineVars, storeVars, queueVars, deciderVars, handlerVars,
                   spc, listed>>

\* addPending: the entry is stored, the deferred Unlock runs
AddUnlock(r) ==
    /\ pc[r] = "adding"
    /\ addPending(r)
    /\ mu' = Unlock(mu)
    /\ pc' = [pc EXCEPT ![r] = "enq_notify"]
    /\ UNCHANGED <<input, engineVars, storeVars, notifyCh, enqRet, ctxErr, deciderVars,
                   handlerVars, spc, listed>>

\* waitForDecision: the select takes <-timeoutCtx.Done() and calls
\* handleTimeout
SelectTimeout(r) ==
    /\ pc[r] = "waiting"
    /\ pc' = [pc EXCEPT ![r] = "timeout_lock"]
    /\ UNCHANGED <<input, engineVars, storeVars, queueVars, deciderVars, handlerVars,
                   lockVars>>

\* handleTimeout gets the lock
HandleTimeoutLock(r) ==
    /\ pc[r] = "timeout_lock"
    /\ CanLockQ
    /\ mu' = Lock(mu)
    /\ pc' = [pc EXCEPT ![r] = "timeout_locked"]
    /\ UNCHANGED <<input, engineVars, storeVars, queueVars, deciderVars, handlerVars,
                   spc, listed>>

\* handleTimeout's section and Unlock, then waitForDecision returns the
\* approval timeout
HandleTimeoutUnlock(r) ==
    /\ pc[r] = "timeout_locked"
    /\ handleTimeout(r)
    /\ mu' = Unlock(mu)
    /\ enqRet' = [enqRet EXCEPT ![r] = <<Ret(TimeoutDecision, "nil")>>]
    /\ pc' = [pc EXCEPT ![r] = "enq_returned"]
    /\ UNCHANGED <<input, engineVars, storeVars, notifyCh, ctxErr, deciderVars,
                   handlerVars, spc, listed>>

\* Decide(id, decision) is called and blocks in q.mu.Lock()
DecideCall(d, id) ==
    /\ dpc[d] = "idle"
    /\ did' = [did EXCEPT ![d] = id]
    /\ ddec' = [ddec EXCEPT ![d] = Submits(d)]
    /\ dpc' = [dpc EXCEPT ![d] = "lock_wait"]
    /\ UNCHANGED <<procVars, engineVars, storeVars, queueVars, handlerVars, dres,
                   lockVars>>

\* Decide gets the lock
DecideLock(d) ==
    /\ dpc[d] = "lock_wait"
    /\ CanLockQ
    /\ mu' = Lock(mu)
    /\ dpc' = [dpc EXCEPT ![d] = "locked"]
    /\ UNCHANGED <<procVars, engineVars, storeVars, queueVars, handlerVars, did, ddec,
                   dres, spc, listed>>

\* Decide's section: not-found, or the entry deleted; Unlock on both paths
DecideUnlock(d) ==
    /\ dpc[d] = "locked"
    /\ IF did[d] \in pending
       THEN /\ pending' = DecideRemoves(pending, did[d])
            /\ dpc' = [dpc EXCEPT ![d] = "send"]
            /\ UNCHANGED dres
       ELSE /\ dres' = [dres EXCEPT ![d] = "not found"]
            /\ dpc' = [dpc EXCEPT ![d] = "done"]
            /\ UNCHANGED pending
    /\ mu' = Unlock(mu)
    /\ UNCHANGED <<procVars, engineVars, storeVars, status, resultCh, notifyCh, enqRet,
                   ctxErr, handlerVars, did, ddec, spc, listed>>

\* watchApprovals: "for range notifyCh" receives a signal and calls
\* broadcastPending, whose GetPending blocks in q.mu.RLock()
WatchRecv ==
    /\ spc = "idle"
    /\ notifyCh.len > 0
    /\ notifyCh' = [notifyCh EXCEPT !.len = @ - 1]
    /\ spc' = "watch_rlock"
    /\ UNCHANGED <<procVars, engineVars, storeVars, pending, status, resultCh, enqRet,
                   ctxErr, deciderVars, handlerVars, mu, listed>>

\* GET /pending: ApprovalHandler.GetPending calls the queue's GetPending
PollCall ==
    /\ spc = "idle"
    /\ spc' = "poll_rlock"
    /\ UNCHANGED <<procVars, engineVars, storeVars, queueVars, deciderVars, handlerVars,
                   mu, listed>>

\* GetPending gets the read lock
GetPendingRLock ==
    /\ spc \in {"watch_rlock", "poll_rlock"}
    /\ CanRLockQ
    /\ mu' = [mu EXCEPT !.readers = @ + 1]
    /\ spc' = IF spc = "watch_rlock" THEN "watch_reading" ELSE "poll_reading"
    /\ UNCHANGED <<procVars, engineVars, storeVars, queueVars, deciderVars, handlerVars,
                   listed>>

\* GetPending copies every entry of q.pending, RUnlock, returns; the
\* watcher broadcasts what it got
GetPendingReturn ==
    /\ spc \in {"watch_reading", "poll_reading"}
    /\ mu' = [mu EXCEPT !.readers = @ - 1]
    /\ listed' = IF spc = "watch_reading" THEN pending ELSE listed
    /\ spc' = "idle"
    /\ UNCHANGED <<procVars, engineVars, storeVars, queueVars, deciderVars, handlerVars>>

\* ------------------------------------------------------------------------
\* Audit store (audit.SQLiteStore over the audit_log table)
\* ------------------------------------------------------------------------
MaxRows == 2           \* rows the table can hold
MaxTime == 1           \* seconds the clock advances

\* json.Marshal of a tool call request; a json.RawMessage is a tuple, the
\* empty tuple being the empty message and a pair a well-formed object
Marshal(body) == <<"tool_name", body>>

\* raw messages handed to Store.Log: empty, malformed, a request envelope
RawMessages == {<<>>, <<"{">>, Marshal("calc")}

\* json.Valid
jsonValid(toolInput) == Len(toolInput) = 2

isValidDecision(d) == d \in {"allow", "deny"}

\* validation that accepts an empty reason
validateLogInput_AnyReason(toolInput, decision, reason) ==
    IF Len(toolInput) = 0 THEN "tool_input cannot be empty"
    ELSE IF ~jsonValid(toolInput) THEN "tool_input must be valid JSON"
    ELSE IF ~isValidDecision(decision) THEN "invalid decision"
    ELSE "nil"

\* validateLogInput: the error returned, "nil" for none
validateLogInput(toolInput, decision, reason) ==
    IF Len(toolInput) = 0 THEN "tool_input cannot be empty"
    ELSE IF ~jsonValid(toolInput) THEN "tool_input must be valid JSON"
    ELSE IF ~isValidDecision(decision) THEN "invalid decision"
    ELSE IF reason = "" THEN "reason cannot be empty"
    ELSE "nil"

\* SQLiteStore.insertEntry: the error returned when the INSERT is refused
insertEntry(fault) == IF fault THEN "insert entry" ELSE "nil"

\* SQLiteStore.Log: the error returned; a row is inserted iff it is "nil"
LogError(toolInput, decision, reason) ==
    IF validateLogInput(toolInput, decision, reason) # "nil"
    THEN validateLogInput(toolInput, decision, reason)
    ELSE insertEntry(storeFault)

\* a row of audit_log
Row(id, ts, toolInput, decision, reason) ==
    [id |-> id, timestamp |-> ts, tool_input |-> toolInput, decision |-> decision,
     reason |-> reason]

Exec(op, id, err) == [op |-> op, id |-> id, err |-> err]

Rows(t) == { t[i] : i \in 1..Len(t) }

\* a table whose new row takes the largest id in use again
nextRowId_Reused(last) == IF last = 0 THEN 1 ELSE last

\* id INTEGER PRIMARY KEY AUTOINCREMENT: one more than the largest id the
\* table has ever given out
nextRowId(last) == last + 1

\* SQLiteStore.Log called on the store; SQLite runs one INSERT at a time, and
\* the row takes its id and CURRENT_TIMESTAMP inside the write transaction
StoreLog(toolInput, decision, reason) ==
    /\ Len(auditLog) < MaxRows
    /\ LET err == LogError(toolInput, decision, reason) IN
       /\ lastExec' = Exec("Log", 0, err)
       /\ IF err = "nil"
          THEN /\ auditLog' = Append(auditLog,
                                     Row(nextRowId(lastId), now, toolInput, decision, reason))
               /\ lastId' = nextRowId(lastId)
          ELSE UNCHANGED <<auditLog, lastId>>
    /\ UNCHANGED <<procVars, engineVars, queueVars, deciderVars, handlerVars, lockVars, writerVars, now,
                   storeFault, gotAll>>

\* insertEntry: attempts made before giving up on a locked database
maxRetries == 3

\* concurrent Log calls in progress
Writing == { q \in Procs : pc[q] \in {"insert", "writing"} }

\* SQLiteStore.Log called concurrently with input that validateLogInput
\* accepts; insertEntry starts its first attempt
LogCall(r) ==
    /\ pc[r] = "idle"
    /\ Len(auditLog) + Cardinality(Writing) < MaxRows
    /\ validateLogInput(Marshal("calc"), "allow", "original") = "nil"
    /\ pc' = [pc EXCEPT ![r] = "insert"]
    /\ attempts' = [attempts EXCEPT ![r] = 0]
    /\ logRet' = [logRet EXCEPT ![r] = "none"]
    /\ UNCHANGED <<input, engineVars, queueVars, deciderVars, handlerVars, lockVars, auditLog,
                   lastId, now, storeFault, gotAll, lastExec, dbWriter>>

\* db.ExecContext of the INSERT takes the write lock of the database
InsertBegin(r) ==
    /\ pc[r] = "insert"
    /\ dbWriter = 0
    /\ dbWriter' = r
    /\ pc' = [pc EXCEPT ![r] = "writing"]
    /\ UNCHANGED <<input, engineVars, queueVars, deciderVars, handlerVars, lockVars, auditLog,
                   lastId, now, storeFault, gotAll, lastExec, attempts, logRet>>

\* the INSERT commits and releases the write lock; insertEntry returns nil
InsertCommit(r) ==
    /\ pc[r] = "writing"
    /\ dbWriter = r
    /\ auditLog' = Append(auditLog,
                          Row(nextRowId(lastId), now, Marshal("calc"), "allow", "original"))
    /\ lastId' = nextRowId(lastId)
    /\ lastExec' = Exec("Log", 0, "nil")
    /\ dbWriter' = 0
    /\ logRet' = [logRet EXCEPT ![r] = "nil"]
    /\ pc' = [pc EXCEPT ![r] = "logged"]
    /\ UNCHANGED <<input, engineVars, queueVars, deciderVars, handlerVars, lockVars, now,
                   storeFault, gotAll, attempts>>

\* db.ExecContext finds the write lock held by another connection and
\* returns "database is locked (SQLITE_BUSY)": insertEntry sleeps and tries
\* again, or returns the error once maxRetries attempts have failed
InsertBusy(r) ==
    /\ pc[r] = "insert"
    /\ dbWriter \notin {0, r}
    /\ attempts' = [attempts EXCEPT ![r] = @ + 1]
    /\ IF attempts[r] + 1 < maxRetries
       THEN UNCHANGED <<pc, logRet, lastExec>>
       ELSE /\ logRet' = [logRet EXCEPT ![r] = "insert entry after 3 retries"]
            /\ lastExec' = Exec("Log", 0, "insert entry after 3 retries")
            /\ pc' = [pc EXCEPT ![r] = "logged"]
    /\ UNCHANGED <<input, engineVars, queueVars, deciderVars, handlerVars, lockVars, auditLog,
                   lastId, now, storeFault, gotAll, dbWriter>>

\* the caller has Log's result and may call again
LogReturn(r) ==
    /\ pc[r] = "logged"
    /\ pc' = [pc EXCEPT ![r] = "idle"]
    /\ UNCHANGED <<input, engineVars, queueVars, deciderVars, handlerVars, lockVars, storeVars>>

\* querySelectAll: every row, ORDER BY timestamp DESC (rows of one second
\* come in any order)
querySelectAll(t) ==
    { s \in Orders(Rows(t)) :
        \A i, j \in 1..Len(s) : i < j => s[i].timestamp >= s[j].timestamp }

\* SQLiteStore.GetAll
GetAll ==
    /\ \E s \in querySelectAll(auditLog) : gotAll' = s
    /\ lastExec' = Exec("GetAll", 0, "nil")
    /\ UNCHANGED <<procVars, engineVars, queueVars, deciderVars, handlerVars, lockVars, writerVars, auditLog,
                   lastId, now, storeFault>>

\* schema without the prevent_audit_update trigger
triggerPreventUpdate_Dropped(matched) == FALSE

\* prevent_audit_update: BEFORE UPDATE ... FOR EACH ROW RAISE(FAIL), raised
\* at the first row the statement matches
triggerPreventUpdate(matched) == matched # {}

\* prevent_audit_delete: BEFORE DELETE ... FOR EACH ROW RAISE(FAIL)
triggerPreventDelete(matched) == matched # {}

\* UPDATE audit_log SET reason = why WHERE id = id, run on the database
ExecUpdate(id, why) ==
    /\ LET matched == { i \in 1..Len(auditLog) : auditLog[i].id = id } IN
       IF triggerPreventUpdate(matched)
       THEN /\ lastExec' = Exec("UPDATE", id, "Updates not allowed on audit_log")
            /\ UNCHANGED auditLog
       ELSE /\ lastExec' = Exec("UPDATE", id, "nil")
            /\ auditLog' = [i \in 1..Len(auditLog) |->
                              IF i \in matched
                              THEN [auditLog[i] EXCEPT !.reason = why]
                              ELSE auditLog[i]]
    /\ UNCHANGED <<procVars, engineVars, queueVars, deciderVars, handlerVars, lockVars, writerVars, lastId,
                   now, storeFault, gotAll>>

\* DELETE FROM audit_log WHERE id = id, run on the database
ExecDelete(id) ==
    /\ LET matched == { i \in 1..Len(auditLog) : auditLog[i].id = id } IN
       IF triggerPreventDelete(matched)
       THEN /\ lastExec' = Exec("DELETE", id, "Deletes not allowed on audit_log")
            /\ UNCHANGED auditLog
       ELSE /\ lastExec' = Exec("DELETE", id, "nil")
            /\ auditLog' = SelectSeq(auditLog, LAMBDA row : row.id # id)
    /\ UNCHANGED <<procVars, engineVars, queueVars, deciderVars, handlerVars, lockVars, writerVars, lastId,
                   now, storeFault, gotAll>>

\* the database starts or stops refusing INSERT statements
SetStoreFault(b) ==
    /\ storeFault # b
    /\ storeFault' = b
    /\ UNCHANGED <<procVars, engineVars, queueVars, deciderVars, handlerVars, lockVars, writerVars, auditLog,
                   lastId, now, gotAll, lastExec>>

\* a second passes
Tick ==
    /\ now < MaxTime
    /\ now' = now + 1
    /\ UNCHANGED <<procVars, engineVars, queueVars, deciderVars, handlerVars, lockVars, writerVars, auditLog,
                   lastId, storeFault, gotAll, lastExec>>

\* ------------------------------------------------------------------------
\* Request pipeline (proxy.Handler)
\* ------------------------------------------------------------------------
\* request bodies: a tool call, a body without tool_name, a body c.Bind rejects
Bodies == Tools \cup {"", "malformed"}

NoResponse == [code |-> 0, msg |-> ""]
Response(code, msg) == [code |-> code, msg |-> msg]

\* Handler.parseRequest
parseRequest(body) ==
    IF body = "malformed" THEN [err |-> TRUE, msg |-> "invalid request body"]
    ELSE IF body = "" THEN [err |-> TRUE, msg |-> "tool_name is required"]
    ELSE [err |-> FALSE, msg |-> ""]

\* Handler.logAudit: the decision string written for a policy response
auditDecision(decision) == IF decision.allow THEN "allow" ELSE "deny"

\* one call of Store.Log by the handler
Logged(decision, reason, err) == [decision |-> decision, reason |-> reason, err |-> err]

\* handler that does not call logAudit
logAudit_Skipped(r, body, decision) == UNCHANGED audited

\* Handler.logAudit: Store.Log with the marshalled request, the decision
\* string and the policy's reason
logAudit(r, body, decision) ==
    audited' = [audited EXCEPT ![r] =
                  Append(@, Logged(auditDecision(decision), decision.reason,
                                   LogError(Marshal(body), auditDecision(decision),
                                            decision.reason)))]

\* handler that answers with a denial when Store.Log returned an error
AfterAudit_FailClosed(decision, err) ==
    IF err = "nil" THEN decision ELSE Resp(FALSE, FALSE, "audit logging failed")

\* HandleToolCall after logAudit returned err: the error is logged as a
\* warning and the handler goes on with the decision it has
AfterAudit(decision, err) == decision

\* the handler returns with the response written
Respond(r) ==
    /\ pc' = [pc EXCEPT ![r] = "responded"]

\* the handler reaches its call of forwardRequest
CallForward(r) ==
    /\ pc' = [pc EXCEPT ![r] = "forwarding"]

\* Handler.forwardRequest: the call is forwarded; 200 with the upstream's
\* result, or 502 when the Forwarder returns an error
forwardRequest(r) ==
    /\ pc[r] = "forwarding"
    /\ forwarded' = [forwarded EXCEPT ![r] = TRUE]
    /\ \E upstreamOk \in BOOLEAN :
          response' = [response EXCEPT ![r] =
                         IF upstreamOk THEN Response(200, "")
                         ELSE Response(502, "upstream request failed")]
    /\ Respond(r)
    /\ UNCHANGED <<input, engineVars, storeVars, lockVars, queueVars, deciderVars, audited>>

\* handler that writes an audit entry for a request it could not parse
RejectAtParse_Audited(r, msg) ==
    /\ response' = [response EXCEPT ![r] = Response(400, msg)]
    /\ Respond(r)
    /\ audited' = [audited EXCEPT ![r] = Append(@, Logged("deny", msg, "nil"))]
    /\ UNCHANGED <<pending, status, resultCh, verdict, forwarded>>

\* HandleToolCall when parseRequest returns an error: errorResponse with
\* 400 and the error's text, and return
RejectAtParse(r, msg) ==
    /\ response' = [response EXCEPT ![r] = Response(400, msg)]
    /\ Respond(r)
    /\ UNCHANGED <<pending, status, resultCh, verdict, audited, forwarded>>

\* HandleToolCall up to the first wait: parseRequest (400 on error),
\* evaluatePolicy (Engine.Evaluate never returns an error), logAudit, then
\* deny, the call of forwardRequest (the upstream call is a step of its
\* own), or handleHumanApproval up to Enqueue's addPending.  The
\* server takes no request once it has shut down, which main.go does before
\* it closes the queue.
HandleToolCall(r, body) ==
    /\ pc[r] = "idle"
    /\ ~notifyCh.closed
    /\ IF parseRequest(body).err
       THEN RejectAtParse(r, parseRequest(body).msg)
       ELSE \E decision \in EvaluateResults(evaluators, body) :
            /\ logAudit(r, body, decision)
            /\ verdict' = [verdict EXCEPT ![r] = <<decision>>]
            /\ LET acted == AfterAudit(decision,
                                       LogError(Marshal(body), auditDecision(decision),
                                                decision.reason)) IN
               IF ~acted.allow
               THEN /\ response' = [response EXCEPT ![r] = Response(403, acted.reason)]
                    /\ Respond(r)
                    /\ UNCHANGED <<pending, status, resultCh, forwarded>>
               ELSE IF acted.human
               THEN /\ addPending(r)
                    /\ pc' = [pc EXCEPT ![r] = "enq_notify"]
                    /\ UNCHANGED <<response, forwarded>>
               ELSE /\ CallForward(r)
                    /\ UNCHANGED <<pending, status, resultCh, response, forwarded>>
    /\ UNCHANGED <<input, dirVars, watchVars, setVars, storeVars, lockVars, readers, seen, callInst, raced, expired, ran,
                   snap, notifyCh, enqRet, ctxErr, deciderVars>>

\* handleHumanApproval treating every returned decision as approved
HumanApproved_Any(dec) == TRUE

\* handleHumanApproval: the test on decision.Approved
HumanApproved(dec) == dec.approved

\* handleHumanApproval after Enqueue returned: 500 on error, deny when not
\* approved, otherwise forward
HandleHumanApprovalResult(r) ==
    /\ pc[r] = "enq_returned"
    /\ LET ret == enqRet[r][1] IN
       IF ret.err # "nil"
       THEN /\ response' = [response EXCEPT ![r] = Response(500, "approval queue error")]
            /\ Respond(r)
       ELSE IF ~HumanApproved(ret.dec)
       THEN /\ response' = [response EXCEPT ![r] = Response(403, ret.dec.reason)]
            /\ Respond(r)
       ELSE /\ CallForward(r)
            /\ UNCHANGED response
    /\ UNCHANGED <<input, engineVars, storeVars, lockVars, queueVars, deciderVars, audited, forwarded>>

\* ------------------------------------------------------------------------
\* Callers of Engine.Evaluate, and the initial state
\* ------------------------------------------------------------------------
\* a client calls Engine.Evaluate with a request for tool t (main.go closes
\* the engine only after the server has stopped taking requests)
ClientEvaluate(r, t) ==
    /\ pc[r] = "idle"
    /\ ~watcherClosed
    /\ input' = [input EXCEPT ![r] = t]
    /\ EvalEnter(r)

\* the client has the response; it may call again
ClientDone(r) ==
    /\ pc[r] = "evaluated"
    /\ pc' = [pc EXCEPT ![r] = "idle"]
    /\ input' = [input EXCEPT ![r] = "calc"]
    /\ verdict' = [verdict EXCEPT ![r] = <<>>]
    /\ seen' = [seen EXCEPT ![r] = NoSeen]
    /\ snap' = [snap EXCEPT ![r] = NoEvaluators]
    /\ expired' = [expired EXCEPT ![r] = FALSE]
    /\ UNCHANGED <<dirVars, watchVars, setVars, readers, callInst, raced, ran, frontVars>>

\* ------------------------------------------------------------------------
\* One evaluator instance over its lifetime: the wasmtime store and the
\* linear memory of the instance persist from call to call
\* ------------------------------------------------------------------------
\* NewWASMEvaluator: store.AddFuel on the new store, its error ignored; the
\* call fails, and adds nothing, on a store whose engine does not meter fuel
AddFuel(units) == IF ConsumeFuel THEN units ELSE 0

\* the instances NewWASMEvaluator returns: no buffer allocated, no result yet
InitInstances ==
    /\ heapUsed = [n \in Names |-> 0]
    /\ fuelLeft = [n \in Names |-> AddFuel(Fuel)]
    /\ results = [n \in Names |-> [t \in Tools |-> {}]]

\* the buffers in use after the instance's allocate export served the calls
\* of one callEvaluate: the interface has no export that frees a buffer and
\* the host keeps none, so every buffer stays allocated
Allocated(used, asked) == used + asked

\* WASMEvaluator.callEvaluate on the instance of policy n: allocateMemory for
\* the input, allocateMemory for the output, then the evaluate export; an
\* allocation the linear memory cannot hold fails, and so does a call made
\* on a metering store without fuel
callEvaluate(n, tool) ==
    /\ n \in DOMAIN evaluators
    /\ LET fits == IF heapUsed[n] + 2 <= MemoryCap THEN 2
                   ELSE MemoryCap - heapUsed[n]
           trap == ConsumeFuel /\ fuelLeft[n] = 0
           out  == IF fits < 2 \/ trap THEN Failed
                   ELSE Behaviour(evaluators[n].art, tool)
       IN /\ heapUsed' = [heapUsed EXCEPT ![n] = Allocated(@, fits)]
          /\ fuelLeft' = [fuelLeft EXCEPT ![n] =
                            IF ConsumeFuel /\ fits = 2 /\ @ > 0 THEN @ - 1 ELSE @]
          /\ results' = [results EXCEPT ![n][tool] = @ \cup {out}]
    /\ UNCHANGED <<procVars, dirVars, watchVars, evalVars, evaluators, gen, closed, wpc,
                   lastGood, preReload, loadErr, frontVars>>

\* NewEngine succeeded: the initial directory holds a policy that compiles
InitEngine(d) ==
    /\ dir = d
    /\ timerArmed = FALSE
    /\ waiters = 0
    /\ handlersReady = 0
    /\ watcherClosed = FALSE
    /\ nDirChanges = 0
    /\ evaluators = LoadFromDir(d, 0).evals
    /\ loadErr = LoadError(LoadFromDir(d, 0))
    /\ InitInstances
    /\ gen = 1
    /\ closed = {}
    /\ readers = {}
    /\ wpc = "none"
    /\ seen = [r \in Procs |-> NoSeen]
    /\ callInst = [r \in Procs |-> <<>>]
    /\ raced = [r \in Procs |-> FALSE]
    /\ expired = [r \in Procs |-> FALSE]
    /\ ran = [r \in Procs |-> 0]
    /\ snap = [r \in Procs |-> NoEvaluators]
    /\ verdict = [r \in Procs |-> <<>>]
    /\ lastGood = LoadFromDir(d, 0).evals
    /\ preReload = NoEvaluators

InitProcs ==
    /\ pc = [r \in Procs |-> "idle"]
    /\ input = [r \in Procs |-> "calc"]

\* NewInMemoryQueue, no Decide call made, no request handled, and
\* NewSQLiteStore on a new database
InitFront ==
    /\ pending = {}
    /\ status = [r \in Procs |-> "none"]
    /\ resultCh = [r \in Procs |-> NewChan]
    /\ notifyCh = [len |-> 0, closed |-> FALSE]
    /\ enqRet = [r \in Procs |-> <<>>]
    /\ ctxErr = [r \in Procs |-> FALSE]
    /\ dpc = [d \in Deciders |-> "idle"]
    /\ did = [d \in Deciders |-> 0]
    /\ ddec = [d \in Deciders |-> ZeroDecision]
    /\ dres = [d \in Deciders |-> "none"]
    /\ audited = [r \in Procs |-> <<>>]
    /\ response = [r \in Procs |-> NoResponse]
    /\ forwarded = [r \in Procs |-> FALSE]
    /\ auditLog = <<>>
    /\ lastId = 0
    /\ now = 0
    /\ storeFault = FALSE
    /\ gotAll = <<>>
    /\ lastExec = Exec("none", 0, "nil")
    /\ dbWriter = 0
    /\ attempts = [r \in Procs |-> 0]
    /\ logRet = [r \in Procs |-> "none"]
    /\ mu = [w |-> FALSE, readers |-> 0]
    /\ spc = "idle"
    /\ listed = {}

InitialDirs == { d \in DirStates : ~LoadFromDir(d, 0).err }

\* ------------------------------------------------------------------------
\* Properties of Engine.Evaluate
\* ------------------------------------------------------------------------
Passed(out) == ~out.err /\ out.resp.allow /\ ~out.resp.human
Denies(out) == ~out.err /\ ~out.resp.allow /\ ~out.resp.human
IsAllow(v) == v.allow /\ ~v.human
IsDeny(v) == ~v.allow /\ ~v.human

\* C5: Evaluate returns the allow verdict, reason "all policies passed", iff
\* the set is non-empty and every evaluator of the snapshot was invoked and
\* returned allow=true, human_required=false without error; and when an
\* evaluator it invoked failed, the verdict is deny "policy error: <name>".
C5_AllowIffAllPassed ==
    \A r \in Procs : pc[r] = "evaluated" =>
        LET v == verdict[r][1] IN
        /\ IsAllow(v) <=> /\ DOMAIN snap[r] # {}
                          /\ DOMAIN seen[r] = DOMAIN snap[r]
                          /\ \A n \in DOMAIN seen[r] : Passed(seen[r][n])
        /\ IsAllow(v) => v = AllPassed
        /\ \A n \in DOMAIN seen[r] :
              seen[r][n].err => v = denyResponse(PolicyErrorReason(n))

\* an Evaluate over two evaluators returned allow
C5_Witness ==
    \E r \in Procs : /\ pc[r] = "evaluated"
                     /\ verdict[r] = <<AllPassed>>
                     /\ Cardinality(DOMAIN seen[r]) = 2

\* C17: when the evaluator set is empty, Evaluate returns the deny verdict
\* (allow=false, human_required=false) with reason "no policies loaded", for
\* every input.
C17_EmptySetDenies ==
    \A r \in Procs :
        (pc[r] = "evaluated" /\ DOMAIN snap[r] = {})
        => verdict[r] = <<Resp(FALSE, FALSE, "no policies loaded")>>

\* two Evaluate calls on the empty set, for different tools, have returned
C17_Witness ==
    \E r, q \in Procs :
        /\ pc[r] = "evaluated" /\ pc[q] = "evaluated"
        /\ DOMAIN snap[r] = {} /\ DOMAIN snap[q] = {}
        /\ input[r] = "calc" /\ input[q] = "db"
        /\ verdict[r] = <<Resp(FALSE, FALSE, "no policies loaded")>>
        /\ verdict[q] = verdict[r]

\* the evaluation of r was not disturbed by an overlapping call: every
\* evaluator it invoked returned what its policy computes for the input
Undisturbed(r) ==
    \A n \in DOMAIN seen[r] : seen[r][n] = Behaviour(snap[r][n].art, input[r])

\* C18: composition is deterministic: two undisturbed Evaluate calls on the
\* same evaluator set with the same input return the same verdict and
\* reason.
C18_Deterministic ==
    \A r, q \in Procs :
        (/\ pc[r] = "evaluated" /\ pc[q] = "evaluated"
         /\ Undisturbed(r) /\ Undisturbed(q)
         /\ snap[r] = snap[q]
         /\ input[r] = input[q])
        => verdict[r] = verdict[q]

\* C6: if an evaluator of the snapshot denies the input (allow=false,
\* human_required=false), the composed verdict is deny, whatever the other
\* evaluators return and in whatever order they are visited.
C6_DenyBiased ==
    \A r \in Procs : (pc[r] = "evaluated" /\ Undisturbed(r)) =>
        ((\E n \in DOMAIN snap[r] : Denies(Behaviour(snap[r][n].art, input[r])))
            => IsDeny(verdict[r][1]))

\* C10: no two Evaluate calls run at once on the same evaluator instance.
C10_NoConcurrentCalls ==
    \A r, q \in Procs : (r # q /\ callInst[r] # <<>>) => callInst[r] # callInst[q]

\* ------------------------------------------------------------------------
\* Properties of reload
\* ------------------------------------------------------------------------
\* C7: a reload whose load fails leaves the set that was installed before it.
C7_FailedReloadKeepsSet ==
    [][(wpc # "none" /\ wpc' = "none" /\ gen' = gen) => evaluators' = preReload]_vars

\* C8: while an Evaluate is composing over snapshot S, the installed set is
\* still S and no instance of S has been closed.
C8_SnapshotLive ==
    \A r \in Procs : pc[r] = "eval_call" =>
        /\ evaluators = snap[r]
        /\ Instances(snap[r]) \cap closed = {}

\* an Evaluate is composing while a watcher-triggered reload waits for the lock
C8_Witness ==
    \E r \in Procs : pc[r] = "eval_call" /\ handlersReady > 0 /\ gen > 1

\* C9: the set an Evaluate observes is the set the latest successful load
\* installed, never an intermediate one.
C9_SnapshotIsLoadedSet ==
    [][\A r \in Procs : (pc[r] = "idle" /\ pc'[r] # "idle") => snap'[r] = lastGood]_vars

\* ------------------------------------------------------------------------
\* Properties of the request pipeline and the approval queue
\* ------------------------------------------------------------------------
IsSuspend(v) == v.allow /\ v.human

\* a Decide on id r returned nil with decision dec
Decided(r, dec) == \E d \in Deciders : did[d] = r /\ dres[d] = "ok" /\ ddec[d] = dec

\* Enqueue returned to request r an approving decision that a successful
\* Decide on its id had sent
ApprovalDelivered(r) ==
    /\ enqRet[r] # <<>>
    /\ enqRet[r][1].err = "nil"
    /\ enqRet[r][1].dec.approved
    /\ Decided(r, enqRet[r][1].dec)

\* C1: a request is forwarded only if its verdict is allow, or its verdict is
\* suspend and an approving human decision was delivered for it; a request
\* answered with a denial or an error, or whose handler panicked, is never
\* forwarded.
C1_ForwardedOnlyIfAllowedOrApproved ==
    \A r \in Procs :
        /\ forwarded[r] =>
              /\ verdict[r] # <<>>
              /\ \/ IsAllow(verdict[r][1])
                 \/ IsSuspend(verdict[r][1]) /\ ApprovalDelivered(r)
        /\ response[r].code \in {400, 403, 500} => ~forwarded[r]
        /\ pc[r] = "panicked" => ~forwarded[r]

\* a suspended request was forwarded after approval while another request's
\* approval timed out and was answered 403
C1_Witness ==
    \E r, q \in Procs :
        /\ forwarded[r] /\ IsSuspend(verdict[r][1]) /\ response[r].code = 200
        /\ q # r /\ response[q] = Response(403, "approval timeout")

\* C2: for every id at most one Decide returns success, and once one has,
\* every other Decide for that id that has returned failed with not-found.
C2_AtMostOneDecide ==
    \A d1, d2 \in Deciders :
        (d1 # d2 /\ did[d1] = did[d2] /\ dres[d1] = "ok") =>
            /\ dres[d2] # "ok"
            /\ dpc[d2] # "send"
            /\ dpc[d2] = "done" => dres[d2] = "not found"

\* a Decide for an id failed with not-found while the winning Decide for that
\* id was still between its unlock and its send
C2_Witness ==
    \E d1, d2 \in Deciders :
        /\ d1 # d2 /\ did[d1] = did[d2]
        /\ dpc[d1] = "send"
        /\ dpc[d2] = "done" /\ dres[d2] = "not found"

\* the terminal transitions that have occurred for the entry of caller r
Outcomes(r) ==
    { o \in {"approved", "denied", "timeout", "cancelled"} :
        \/ o \in {"approved", "denied"} /\
              \E d \in Deciders : did[d] = r /\ dres[d] = "ok" /\ statusFromDecision(ddec[d]) = o
        \/ o = "timeout" /\ enqRet[r] = <<Ret(TimeoutDecision, "nil")>>
        \/ o = "cancelled" /\ enqRet[r] # <<>> /\ enqRet[r][1].err # "nil" }

\* C3: once Enqueue has returned (the queue not being closed), exactly one of
\* approved decision, denied decision, timeout denial, cancellation has
\* occurred for its entry, and the status the entry left pending for is that
\* outcome's (timeout for a cancellation).
C3_ExactlyOneTerminal ==
    \A r \in Procs : (pc[r] = "enq_returned" /\ ~notifyCh.closed) =>
        /\ Cardinality(Outcomes(r)) = 1
        /\ status[r] # "pending" =>
              status[r] \in (Outcomes(r) \ {"cancelled"}) \cup
                            (IF "cancelled" \in Outcomes(r) THEN {"timeout"} ELSE {})

\* C4: when Decide(id, d) returned success and the Enqueue for id has
\* returned, Enqueue returned exactly d with a nil error.
C4_DecidedIsDelivered ==
    \A d \in Deciders : (dres[d] = "ok" /\ pc[did[d]] = "enq_returned") =>
        enqRet[did[d]] = <<Ret(ddec[d], "nil")>>

\* Enqueue returned the approval timeout to caller r, whose context was
\* not cancelled
TimedOut(r) ==
    /\ pc[r] = "enq_returned"
    /\ ~ctxErr[r]
    /\ enqRet[r] = <<Ret(Decision(FALSE, "approval timeout", ""), "nil")>>

C20_CancelReported ==
    \A r \in Procs :
        (/\ pc[r] = "enq_returned"
         /\ ctxErr[r]
         /\ ~\E d \in Deciders : did[d] = r /\ dpc[d] # "idle")
        => /\ enqRet[r] = <<Ret(Decision(FALSE, "request cancelled", ""), "context canceled")>>
           /\ r \notin pending

\* Close found the entry of caller r pending: it closed the entry's
\* resultCh and wrote no Status
ClosedWhilePending(r) ==
    /\ notifyCh.closed
    /\ resultCh[r].closed
    /\ status[r] = "pending"

\* C21: a caller that was blocked in Enqueue when the queue was closed is
\* released with a non-approved result that carries a cancellation error.
C21_CloseCancels ==
    \A r \in Procs :
        (pc[r] = "enq_returned" /\ ClosedWhilePending(r) /\ ~ctxErr[r])
        => /\ ~enqRet[r][1].dec.approved
           /\ enqRet[r][1].err # "nil"

\* id is unknown to the queue, or its entry was decided, or its Enqueue has
\* returned (decision, timeout, cancellation)
Terminal(id) ==
    \/ status[id] = "none"
    \/ \E d \in Deciders : did[d] = id /\ (dpc[d] \in {"send", "panicked"} \/ dres[d] = "ok")
    \/ pc[id] = "enq_returned"

\* C22: a Decide on an id that is unknown or already terminal fails with
\* not-found, delivers nothing to any caller and leaves the pending set and
\* every entry unchanged.
C22_DecideTerminalNotFound ==
    [][\A d \in Deciders, id \in Procs :
         (dpc[d] = "idle" /\ dpc'[d] # "idle" /\ did'[d] = id /\ Terminal(id))
         => /\ dpc'[d] = "done"
            /\ dres'[d] = "not found"
            /\ pending' = pending
            /\ resultCh' = resultCh
            /\ enqRet' = enqRet
            /\ status' = status]_vars

\* a Decide for an id failed with not-found after another Decide's decision
\* for that id had been returned by Enqueue
C22_Witness ==
    \E d1, d2 \in Deciders :
        /\ d1 # d2 /\ did[d1] = did[d2]
        /\ dres[d1] = "ok"
        /\ pc[did[d1]] = "enq_returned"
        /\ enqRet[did[d1]] = <<Ret(ddec[d1], "nil")>>
        /\ dpc[d2] = "done" /\ dres[d2] = "not found"

\* entries that were added by Enqueue and have had no terminal transition:
\* not deleted by a Decide, and handleTimeout has not run for them
Live ==
    { r \in Procs :
        /\ pc[r] \in {"enq_notify", "waiting", "timeout_lock", "timeout_locked"}
        /\ ~\E d \in Deciders : did[d] = r /\ (dpc[d] = "send" \/ dres[d] = "ok") }

Settled ==
    /\ \A r \in Procs : pc[r] \in {"idle", "enq_returned"}
    /\ \A d \in LockDeciders : dpc[d] \in {"idle", "done"}
    /\ spc = "idle"

\* C24: the queue is deadlock-free: every Enqueue, Decide and GetPending
\* call returns, that is, however many calls are made, again and again no
\* call is in progress.
C24_DeadlockFree == []<>Settled

\* a timed-out caller holds q.mu in handleTimeout while a Decide, a
\* GetPending and another Enqueue are blocked on it
C24_Witness ==
    \E r, q \in Procs, d \in LockDeciders :
        /\ pc[r] = "timeout_locked" /\ mu.w
        /\ pc[q] = "add_lock"
        /\ dpc[d] = "lock_wait"
        /\ spc \in {"watch_rlock", "poll_rlock"}

\* no goroutine of the queue or of the watcher can take a step
Quiescent ==
    /\ \A r \in Procs : pc[r] \in {"idle", "enq_returned"}
    /\ \A d \in Deciders : dpc[d] \in {"idle", "done"}
    /\ spc = "idle"
    /\ notifyCh.len = 0

\* C25: every change of the pending set is signalled, so that once nothing
\* is in progress and no signal is left to consume, what the subscriber
\* last fetched is the current pending set.
C25_SubscriberCurrent ==
    Quiescent => listed = pending

\* ------------------------------------------------------------------------
\* Properties of the audit trail
\* ------------------------------------------------------------------------
\* rows of audit_log that hold request r's envelope
Entries(r) ==
    { audited[r][i] : i \in { j \in 1..Len(audited[r]) : audited[r][j].err = "nil" } }

\* Store.Log returned an error to the handler of request r
LogFailed(r) == \E i \in 1..Len(audited[r]) : audited[r][i].err # "nil"

\* the database refused the INSERT of request r's entry
StoreRefused(r) == \E i \in 1..Len(audited[r]) : audited[r][i].err = insertEntry(TRUE)

\* C11: every parsed request whose composed verdict is deny has, by the time
\* its denial response is returned, an audit entry with outcome deny and its
\* envelope (here even granting the case that the database refused the
\* write).
C11_DenialAudited ==
    \A r \in Procs :
        (/\ pc[r] = "responded"
         /\ verdict[r] # <<>>
         /\ IsDeny(verdict[r][1])
         /\ ~StoreRefused(r))
        => \E e \in Entries(r) : e.decision = "deny"

Prescribed(r) ==
    LET v == verdict[r][1] IN
    IF ~v.allow
    THEN /\ pc[r] = "responded"
         /\ response[r] = Response(403, v.reason)
         /\ ~forwarded[r]
         /\ status[r] = "none"
    ELSE IF v.human
    THEN /\ status[r] # "none"
         /\ forwarded[r] => (enqRet[r] # <<>> /\ enqRet[r][1].err = "nil"
                             /\ enqRet[r][1].dec.approved)
         /\ (pc[r] = "responded" /\ ~forwarded[r]) => response[r].code \in {403, 500}
    ELSE /\ status[r] = "none"
         /\ pc[r] \in {"forwarding", "responded"}
         /\ pc[r] = "responded" => (forwarded[r] /\ response[r].code \in {200, 502})

\* C29: a request whose audit write returned an error is denied, suspended
\* or forwarded, and answered, as its verdict alone prescribes
C29_AuditFailureHarmless ==
    \A r \in Procs : (verdict[r] # <<>> /\ LogFailed(r)) => Prescribed(r)

\* after the store refused both writes, one request was suspended, approved
\* and forwarded with 200 while another was denied with 403
C29_Witness ==
    \E r, q \in Procs :
        /\ StoreRefused(r) /\ IsSuspend(verdict[r][1])
        /\ forwarded[r] /\ response[r].code = 200
        /\ q # r /\ StoreRefused(q) /\ ~verdict[q][1].allow
        /\ response[q].code = 403

\* C34: a request that did not pass parseRequest is answered 400 and has
\* no verdict, no audit entry, no approval entry and no upstream call; no
\* other request is answered 400
C34_ParseRejects ==
    \A r \in Procs :
        /\ (pc[r] # "idle" /\ verdict[r] = <<>>) =>
              /\ pc[r] = "responded"
              /\ response[r].code = 400
              /\ response[r].msg \in {"invalid request body", "tool_name is required"}
        /\ response[r].code = 400 =>
              /\ verdict[r] = <<>>
              /\ audited[r] = <<>>
              /\ status[r] = "none"
              /\ r \notin pending
              /\ ~forwarded[r]

\* a body without tool_name was rejected while another request was audited
\* and forwarded
C34_Witness ==
    \E r, q \in Procs :
        /\ response[r] = Response(400, "tool_name is required")
        /\ q # r
        /\ audited[q] # <<>>
        /\ forwarded[q]

\* Enqueue returned to request r a human decision or the approval timeout
Resolved(r) ==
    /\ enqRet[r] # <<>>
    /\ enqRet[r][1].err = "nil"
    /\ (enqRet[r][1].dec = TimeoutDecision \/ Decided(r, enqRet[r][1].dec))

\* C13: after a suspended request is resolved and answered, the audit log
\* holds an entry for the resolved decision: allow when approved, deny when
\* denied or timed out.
C13_ResolutionAudited ==
    \A r \in Procs :
        (/\ pc[r] = "responded"
         /\ verdict[r] # <<>>
         /\ IsSuspend(verdict[r][1])
         /\ Resolved(r)
         /\ ~LogFailed(r))
        => \E e \in Entries(r) :
              e.decision = IF enqRet[r][1].dec.approved THEN "allow" ELSE "deny"

\* C14: while a request whose verdict is suspend awaits its resolution,
\* nothing has been written to the audit log for it.
C14_SuspendNotAudited ==
    \A r \in Procs :
        (/\ pc[r] \in {"enq_notify", "waiting"}
         /\ verdict[r] # <<>>
         /\ IsSuspend(verdict[r][1]))
        => audited[r] = <<>>

\* C15: the audit log is append-only.  Every row stays in the table with its
\* id, timestamp, tool_input, decision and reason unchanged; a GetAll returns
\* exactly the rows of the table; and an UPDATE or DELETE aimed at a row of
\* the table fails.
C15_AppendOnly ==
    /\ [][\A i \in 1..Len(auditLog) :
             Len(auditLog') >= i /\ auditLog'[i] = auditLog[i]]_vars
    /\ [](lastExec.op = "GetAll" => Rows(gotAll) = Rows(auditLog))
    /\ []((/\ lastExec.op \in {"UPDATE", "DELETE"}
           /\ \E row \in Rows(auditLog) : row.id = lastExec.id)
          => lastExec.err # "nil")

\* a DELETE of a logged row was rejected, and the rows an earlier GetAll
\* returned are still the rows of the table
C15_Witness ==
    /\ lastExec.op = "DELETE"
    /\ lastExec.err # "nil"
    /\ Len(gotAll) = MaxRows
    /\ Rows(gotAll) = Rows(auditLog)
    /\ \E row \in Rows(auditLog) : row.id = lastExec.id /\ row.timestamp < now

C31_NewestFirst ==
    lastExec.op = "GetAll" =>
        \A i, j \in 1..Len(gotAll) :
            i < j => \/ gotAll[i].timestamp > gotAll[j].timestamp
                     \/ /\ gotAll[i].timestamp = gotAll[j].timestamp
                        /\ gotAll[i].id > gotAll[j].id

\* C32: a Log call that returns an error leaves the table as it was, and
\* every stored entry has well-formed JSON tool_input, a decision that is
\* allow or deny, and a reason that is not empty
C32_InvalidRejected ==
    /\ [][(lastExec'.op = "Log" /\ lastExec'.err # "nil") => auditLog' = auditLog]_vars
    /\ [](\A row \in Rows(auditLog) :
            /\ jsonValid(row.tool_input)
            /\ isValidDecision(row.decision)
            /\ row.reason # "")

\* Log has just rejected an input after an entry was stored
C32_Witness ==
    /\ lastExec.op = "Log"
    /\ lastExec.err \in {"tool_input cannot be empty", "tool_input must be valid JSON",
                          "invalid decision", "reason cannot be empty"}
    /\ Len(auditLog) = 1

\* C33: every concurrent Log call with valid input returns nil
C33_AllWritersSucceed ==
    \A r \in Procs : pc[r] = "logged" => logRet[r] = "nil"

\* C16: a request whose verdict has allow=false and human_required=true is
\* submitted to the approval queue rather than denied outright.
C16_ReviewIsSuspension ==
    \A r \in Procs :
        (/\ verdict[r] # <<>>
         /\ ~verdict[r][1].allow
         /\ verdict[r][1].human
         /\ pc[r] = "responded")
        => status[r] # "none"

\* C36: a reload is started only by the expiry of the debounce timer, which
\* ends the burst, and each expiry starts exactly one; an event that arrives
\* starts none and, arriving while the timer runs, leaves it running
C36_OneReloadPerBurst ==
    /\ [][handlersReady' > handlersReady =>
            (timerArmed /\ ~timerArmed' /\ handlersReady' = handlersReady + 1)]_vars
    /\ [][(timerArmed /\ ~timerArmed') => handlersReady' = handlersReady + 1]_vars
    /\ [][nDirChanges' # nDirChanges =>
            (handlersReady' = handlersReady /\ (timerArmed => timerArmed'))]_vars

\* after an earlier burst was reloaded, a burst of two events has ended
\* with one reload started and one goroutine left waiting
C36_Witness ==
    /\ gen > 1
    /\ nDirChanges = MaxEvents
    /\ ~timerArmed
    /\ handlersReady = 1
    /\ waiters = 1

\* reloadLocked has emptied the map and its call of loader.LoadFromDir
\* (directory scan, compilation) has not returned
Loading == wpc \in {"reload_load", "change_load"}

\* C35: while the loader runs the write lock is not held, so that Evaluate
\* can take its read lock
C35_LoadOutsideLock == Loading => EvaluateLocks

\* C28: while the watcher is open, every change to a file the watcher takes
\* for a policy (written, created, deleted or renamed away) resets the
\* debounce timer and starts a goroutine that will reload
C28_ChangeTriggersReload ==
    [][\A f \in Files :
          (f.ext = ".wasm" /\ dir'[f] # dir[f] /\ ~watcherClosed)
          => (timerArmed' /\ waiters' = waiters + 1)]_vars

\* ------------------------------------------------------------------------
\* Properties of the evaluation budgets
\* ------------------------------------------------------------------------
\* C26: an evaluation that ran past the deadline of its context returns the
\* denial 'policy evaluation timeout'
C26_TimeoutDenies ==
    \A r \in Procs :
        (pc[r] = "evaluated" /\ expired[r])
        => verdict[r] = <<denyResponse("policy evaluation timeout")>>

\* C27: an invocation of an evaluator never executes more than the fuel
\* its store was given
C27_FuelBounded == \A r \in Procs : ran[r] <= Fuel

\* ------------------------------------------------------------------------
\* SpecCompose: concurrent Engine.Evaluate calls on a fixed evaluator set,
\* for every set the loader can produce
\* ------------------------------------------------------------------------
\* the engine as NewEngine leaves it, and as a reload that found no policy
\* leaves it (e.evaluators emptied)
InitC == InitProcs /\ InitFront /\ \E d \in DirStates : InitEngine(d)

\* requests are for the tool on which deny_sensitive differs from allow_all,
\* and for every tool when the set is empty
ComposeTools == IF DOMAIN evaluators = {} THEN Tools ELSE {"db"}

NextC ==
    \/ \E r \in Procs, t \in ComposeTools : ClientEvaluate(r, t)
    \/ \E r \in Procs : EvalCallReturn(r)
    \/ \E r \in Procs : ClientDone(r)

SpecCompose == InitC /\ [][NextC]_vars

\* ------------------------------------------------------------------------
\* SpecEngine: Engine.Evaluate calls while the policy directory changes and
\* the engine reloads (explicitly and from the watcher) and closes
\* ------------------------------------------------------------------------
\* directory contents used: a policy that compiles and a broken file
ReloadArtifacts == {"allow_all", "invalid"}
ReloadDirs == { d \in InitialDirs : d[[stem |-> "a", ext |-> ".wasm"]] = "allow_all"
                                    /\ d[[stem |-> "B", ext |-> ".WASM"]] = Absent }

InitE == InitProcs /\ InitFront /\ \E d \in ReloadDirs : InitEngine(d)

NextE ==
    \/ \E r \in Procs : ClientEvaluate(r, "db")
    \/ \E r \in Procs : EvalCallReturn(r)
    \/ \E r \in Procs : ClientDone(r)
    \/ \E f \in Files, art \in ReloadArtifacts : WritePolicy(f, art)
    \/ \E f \in Files : DeletePolicy(f)
    \/ \E f \in Files : RenamePolicy(f)
    \/ WaitAndHandle
    \/ Reload
    \/ HandlePolicyChange
    \/ ReloadLockedLoad
    \/ EngineClose

SpecEngine == InitE /\ [][NextE]_vars

\* ------------------------------------------------------------------------
\* SpecBudget: evaluatePolicy calls on sets that may hold a looping policy,
\* while the 5 s deadline of the evaluation context may pass
\* ------------------------------------------------------------------------
BudgetDirs == { d \in [Files -> {"allow_all", "spin", Absent}] :
                  d[[stem |-> "a", ext |-> ".wasm"]] # Absent }

InitB == InitProcs /\ InitFront /\ \E d \in BudgetDirs : InitEngine(d)

NextB ==
    \/ \E r \in Procs : ClientEvaluate(r, "db")
    \/ \E r \in Procs : EvalCallReturn(r)
    \/ \E r \in Procs : EvalRun(r)
    \/ \E r \in Procs : EvalDeadline(r)
    \/ \E r \in Procs : ClientDone(r)

SpecBudget == InitB /\ [][NextB]_vars

----------------------------------------------------------------------------
\* The loader alone: NewEngine's first load over every directory of up to
\* three files, two of which differ in the case of their names only.

LoaderArtifacts == {"allow_all", "deny_sensitive", "invalid"}

LoaderDirs == [LoaderFiles -> LoaderArtifacts \cup {Absent}]

\* the engine NewEngine has constructed, before loadPolicies runs
InitLoad ==
    /\ InitProcs /\ InitFront
    /\ \E d \in LoaderDirs :
        /\ dir = d
        /\ timerArmed = FALSE /\ waiters = 0 /\ handlersReady = 0
        /\ watcherClosed = FALSE /\ nDirChanges = 0
        /\ evaluators = NoEvaluators /\ loadErr = "none"
        /\ InitInstances
        /\ gen = 1 /\ closed = {} /\ readers = {} /\ wpc = "none"
        /\ seen = [r \in Procs |-> NoSeen]
        /\ callInst = [r \in Procs |-> <<>>]
        /\ raced = [r \in Procs |-> FALSE]
        /\ expired = [r \in Procs |-> FALSE]
        /\ ran = [r \in Procs |-> 0]
        /\ snap = [r \in Procs |-> NoEvaluators]
        /\ verdict = [r \in Procs |-> <<>>]
        /\ lastGood = NoEvaluators /\ preReload = NoEvaluators

\* Engine.loadPolicies called by NewEngine: LoadFromDir over the directory;
\* os.ReadDir either fails or lists the files
loadPolicies ==
    /\ loadErr = "none"
    /\ \E readable \in BOOLEAN :
        IF readable
        THEN LET res == LoadFromDir(dir, 0) IN
             /\ loadErr' = LoadError(res)
             /\ evaluators' = res.evals
             /\ lastGood' = res.evals
        ELSE /\ loadErr' = ReadDirError
             /\ UNCHANGED <<evaluators, lastGood>>
    /\ UNCHANGED <<instVars, procVars, dirVars, watchVars, evalVars, gen, closed, wpc, preReload,
                   frontVars>>

NextLoad == loadPolicies

SpecLoad == InitLoad /\ [][NextLoad]_vars

\* the candidates of the directory that compile
Compiled == { f \in DOMAIN dir : dir[f] # Absent /\ dir[f] # "invalid"
                                 /\ f.ext \in {".wasm", ".WASM"} }

\* C37: the loader skips candidates that do not compile: when it has read
\* the directory it returns no error and exactly the evaluators of the
\* candidates that compiled, one for each, under the lowercased base name,
\* if there is one, and otherwise an error that is not the directory-read
\* error.
C37_SkipsAndReturnsCompiled ==
    loadErr \notin {"none", ReadDirError} =>
        IF Compiled = {}
        THEN loadErr # "nil" /\ loadErr # ReadDirError
        ELSE /\ loadErr = "nil"
             /\ DOMAIN evaluators = { extractPolicyName(f) : f \in Compiled }
             /\ \A f \in Compiled : evaluators[extractPolicyName(f)].art = dir[f]

\* ------------------------------------------------------------------------
\* SpecInstance: evaluator instances that live long, each serving one
\* evaluation after another
\* ------------------------------------------------------------------------
InstanceDirs == { d \in [Files -> {"allow_all", "deny_sensitive", "trap", Absent}] :
                    d[[stem |-> "a", ext |-> ".wasm"]] # Absent }

InitI == InitProcs /\ InitFront /\ \E d \in InstanceDirs : InitEngine(d)

NextI == \E n \in Names, tool \in Tools : callEvaluate(n, tool)

SpecInstance == InitI /\ [][NextI]_vars

\* C40: what an evaluator instance returns for an input does not depend on
\* how many evaluations it has served: it returns one and the same result
\* for a tool call every time, and its fuel is never less than at its
\* construction.
C40_ResultIndependentOfHistory ==
    \A n \in Names :
        /\ fuelLeft[n] = AddFuel(Fuel)
        /\ \A t \in Tools : Cardinality(results[n][t]) <= 1

\* ------------------------------------------------------------------------
\* SpecWatch: bursts of change events on the policy directory, the debounce
\* timer and the reloads it starts
\* ------------------------------------------------------------------------
NextT ==
    \/ \E f \in Files : TouchPolicy(f)
    \/ \E f \in Files, art \in ReloadArtifacts : WritePolicy(f, art)
    \/ WaitAndHandle
    \/ HandlePolicyChange
    \/ ReloadLockedLoad

SpecWatch == InitE /\ [][NextT]_vars

\* ------------------------------------------------------------------------
\* SpecQueue: Enqueue callers against deciders, timeouts, cancellation and
\* Close, on the queue alone
\* ------------------------------------------------------------------------
InitQ == InitProcs /\ InitFront /\ \E d \in ReloadDirs : InitEngine(d)

NextQ ==
    \/ \E r \in Procs : CallEnqueue(r)
    \/ \E r \in Procs : EnqueueNotify(r)
    \/ \E r \in Procs : WaitRecv(r)
    \/ \E r \in Procs : WaitTimeout(r)
    \/ \E r \in Procs : WaitCancel(r)
    \/ \E d \in Deciders, id \in Procs : Decide(d, id)
    \/ \E d \in Deciders : DecideSend(d)
    \/ QueueClose

SpecQueue == InitQ /\ [][NextQ]_vars

\* C38: under every interleaving of Enqueue, Decide, timeout, cancellation
\* and Close, no operation sends on or closes a closed channel: neither an
\* Enqueue caller nor a Decide caller ever panics.
C38_NoPanic ==
    /\ \A r \in Procs : pc[r] # "panicked"
    /\ \A d \in Deciders : dpc[d] # "panicked"

\* the Decide callers that send, or have sent, on the result channel of id
Senders(id) == { d \in Deciders : did[d] = id /\ (dpc[d] = "send" \/ dres[d] = "ok") }

\* C39: the result channel of an entry gets at most one send, and Decide's
\* send always succeeds: it finds the channel open and its buffer empty,
\* puts its decision there and returns nil; no decision is dropped.
C39_SendAlwaysSucceeds ==
    /\ [](\A id \in Procs : Cardinality(Senders(id)) <= 1 /\ Len(resultCh[id].buf) <= ResultCap)
    /\ [][\A d \in Deciders :
            (dpc[d] = "send" /\ dpc'[d] # "send") =>
                /\ ~resultCh[did[d]].closed /\ resultCh[did[d]].buf = <<>>
                /\ resultCh'[did[d]].buf = <<ddec[d]>>
                /\ dpc'[d] = "done" /\ dres'[d] = "ok"]_vars

\* a Decide has sent its decision and returned while the entry's caller has
\* not yet received it, and another Decide for the same id found nothing
C39_Witness ==
    \E d1, d2 \in Deciders : \E id \in Procs :
        /\ d1 # d2 /\ did[d1] = id /\ did[d2] = id
        /\ dres[d1] = "ok" /\ resultCh[id].buf = <<ddec[d1]>> /\ pc[id] = "waiting"
        /\ dres[d2] = "not found"

\* ------------------------------------------------------------------------
\* SpecLock: the approval queue at the granularity of q.mu, with Enqueue
\* callers, a decider, timeouts, the watcher and pollers of GetPending.
\* Fairness: the Go scheduler runs every runnable goroutine, a timer that
\* was started fires, and sync.RWMutex hands the lock to every waiter
\* (starvation mode), so a goroutine blocked in Lock or RLock gets it.
\* ------------------------------------------------------------------------
NextL ==
    \/ \E r \in Procs : EnqueueCall(r)
    \/ \E r \in Procs : AddLock(r)
    \/ \E r \in Procs : AddUnlock(r)
    \/ \E r \in Procs : EnqueueNotify(r)
    \/ \E r \in Procs : WaitRecv(r)
    \/ \E r \in Procs : SelectTimeout(r)
    \/ \E r \in Procs : HandleTimeoutLock(r)
    \/ \E r \in Procs : HandleTimeoutUnlock(r)
    \/ \E d \in LockDeciders, id \in Procs : DecideCall(d, id)
    \/ \E d \in LockDeciders : DecideLock(d)
    \/ \E d \in LockDeciders : DecideUnlock(d)
    \/ \E d \in LockDeciders : DecideSend(d)
    \/ WatchRecv
    \/ PollCall
    \/ GetPendingRLock
    \/ GetPendingReturn

\* a step outside q.mu.Lock() that a caller or decider goroutine can take
\* (the select of waitForDecision can always take its timeout case)
RunStep ==
    \/ \E r \in Procs : AddUnlock(r) \/ EnqueueNotify(r) \/ WaitRecv(r)
                           \/ SelectTimeout(r) \/ HandleTimeoutUnlock(r)
    \/ \E d \in LockDeciders : DecideUnlock(d) \/ DecideSend(d)

\* a caller or decider goroutine blocked in q.mu.Lock() gets the lock
LockStep ==
    \/ \E r \in Procs : AddLock(r) \/ HandleTimeoutLock(r)
    \/ \E d \in LockDeciders : DecideLock(d)

FairL ==
    /\ WF_vars(RunStep)
    /\ SF_vars(LockStep)
    /\ WF_vars(WatchRecv \/ GetPendingReturn)
    /\ SF_vars(GetPendingRLock)

SpecLock == InitQ /\ [][NextL]_vars /\ FairL

\* ------------------------------------------------------------------------
\* SpecStore: the audit store alone, with Log, GetAll, and UPDATE and DELETE
\* statements run on its database
\* ------------------------------------------------------------------------
LogDecisions == {"allow", "deny", "maybe"}
Reasons == {"", "original"}

InitS == InitProcs /\ InitFront /\ \E d \in ReloadDirs : InitEngine(d)

NextS ==
    \/ \E toolInput \in RawMessages, decision \in LogDecisions, why \in Reasons :
          StoreLog(toolInput, decision, why)
    \/ GetAll
    \/ \E id \in 1..MaxRows : ExecUpdate(id, "modified")
    \/ \E id \in 1..MaxRows : ExecDelete(id)
    \/ \E b \in BOOLEAN : SetStoreFault(b)
    \/ Tick

SpecStore == InitS /\ [][NextS]_vars

\* ------------------------------------------------------------------------
\* SpecWriters: concurrent Log calls with valid input on one database
\* ------------------------------------------------------------------------
NextW ==
    \/ \E r \in Procs : LogCall(r)
    \/ \E r \in Procs : InsertBegin(r)
    \/ \E r \in Procs : InsertCommit(r)
    \/ \E r \in Procs : InsertBusy(r)
    \/ \E r \in Procs : LogReturn(r)
    \/ GetAll
    \/ Tick

SpecWriters == InitS /\ [][NextW]_vars

\* ------------------------------------------------------------------------
\* SpecAudit: the request pipeline against an audit store that can refuse
\* writes, over policies that suspend, deny without a reason, or deny and
\* ask for review; every suspended request is decided by a decider
\* ------------------------------------------------------------------------
AuditDirs == { d \in InitialDirs :
                 /\ d[[stem |-> "a", ext |-> ".wasm"]] \in
                       {"require_approval", "silent", "review_block"}
                 /\ d[[stem |-> "B", ext |-> ".WASM"]] = Absent }

InitA == InitProcs /\ InitFront /\ \E d \in AuditDirs : InitEngine(d)

NextA ==
    \/ \E r \in Procs, body \in Tools : HandleToolCall(r, body)
    \/ \E r \in Procs : EnqueueNotify(r)
    \/ \E r \in Procs : WaitRecv(r)
    \/ \E r \in Procs : HandleHumanApprovalResult(r)
    \/ \E r \in Procs : forwardRequest(r)
    \/ \E d \in Deciders, id \in Procs : Decide(d, id)
    \/ \E d \in Deciders : DecideSend(d)
    \/ \E b \in BOOLEAN : SetStoreFault(b)

SpecAudit == InitA /\ [][NextA]_vars

\* ------------------------------------------------------------------------
\* Spec: the request pipeline, HandleToolCall from the request body to the
\* response, with the deciders and the shutdown of the queue
\* ------------------------------------------------------------------------
\* policy sets of the pipeline: one policy file, which requires approval for
\* the sensitive tool or denies it
PipelineDirs == { d \in InitialDirs :
                    /\ d[[stem |-> "a", ext |-> ".wasm"]] \in {"require_approval", "deny_sensitive"}
                    /\ d[[stem |-> "B", ext |-> ".WASM"]] = Absent }

Init == InitProcs /\ InitFront /\ \E d \in PipelineDirs : InitEngine(d)

Next ==
    \/ \E r \in Procs, body \in Bodies : HandleToolCall(r, body)
    \/ \E r \in Procs : EnqueueNotify(r)
    \/ \E r \in Procs : WaitRecv(r)
    \/ \E r \in Procs : WaitTimeout(r)
    \/ \E r \in Procs : WaitCancel(r)
    \/ \E r \in Procs : HandleHumanApprovalResult(r)
    \/ \E r \in Procs : forwardRequest(r)
    \/ \E d \in Deciders, id \in Procs : Decide(d, id)
    \/ \E d \in Deciders : DecideSend(d)
    \/ QueueClose

Spec == Init /\ [][Next]_vars

====
